---- MODULE Spec2Model ----
(***************************************************************************)
(* Model of thapbi_pict/assess.py, the "thapbi_pict assess" command, and   *)
(* of scripts/pooling.py, which pools the lines of a sample report.        *)
(*                                                                         *)
(* A Python str is a sequence of one-character strings, so that split,     *)
(* join and sorted are computed and not assumed: "A;B" is <<"A",";","B">>  *)
(* and "" is <<>>.  A dict is a function whose DOMAIN is its key set, a    *)
(* collections.Counter a function that starts at zero, a Python set a set. *)
(***************************************************************************)
EXTENDS Integers, Sequences, FiniteSets, TLC

VARIABLES pc, marker, db_sp_list, method_filenames, known_filenames, loaded,
          method_sp, known_sp, global_tally, tally_order, sp_list, reports,
          status, warnings, call,
          tsv, line_no, options, meta_samples, meta_species, meta_pending, pooled

\* the state of scripts/pooling.py: the input table and how many of its lines
\* were read, the command line options, the three dicts and the written lines
pool_vars == <<tsv, line_no, options, meta_samples, meta_species, meta_pending, pooled>>

vars == <<pc, marker, db_sp_list, method_filenames, known_filenames, loaded,
          method_sp, known_sp, global_tally, tally_order, sp_list, reports,
          status, warnings, call, pool_vars>>

(***************************************************************************)
(* Bounds of the model.                                                    *)
(***************************************************************************)
\* most entries of a tally handed directly to the extraction functions
MaxEntries == 2
\* largest count of one such tally entry
MaxCount == 2
\* most input files of one run (method and known files together)
MaxFiles == 3

(***************************************************************************)
(* Python strings.                                                         *)
(***************************************************************************)
EMPTY == <<>>
SEMI == ";"

\* the class names of the module-level asserts
A == <<"A">>
B == <<"B">>
C == <<"C">>
D == <<"D">>

\* ASCII code points, the order Python's sorted() compares str by
CharOrd(c) ==
    CASE c = ";" -> 59
      [] c = "A" -> 65
      [] c = "B" -> 66
      [] c = "C" -> 67
      [] c = "D" -> 68
      [] c = "G" -> 71
      [] c = "Z" -> 90
      [] OTHER -> 127

\* s < t for two str
RECURSIVE StrLess(_, _)
StrLess(s, t) ==
    IF t = EMPTY THEN FALSE
    ELSE IF s = EMPTY THEN TRUE
    ELSE IF Head(s) = Head(t) THEN StrLess(Tail(s), Tail(t))
    ELSE CharOrd(Head(s)) < CharOrd(Head(t))

\* sorted(S) for a set S of str
RECURSIVE sorted(_)
sorted(S) ==
    IF S = {} THEN <<>>
    ELSE LET m == CHOOSE x \in S : \A y \in S \ {x} : StrLess(x, y)
         IN  <<m>> \o sorted(S \ {m})

\* sep.join(parts)
RECURSIVE join(_, _)
join(sep, parts) ==
    IF parts = <<>> THEN EMPTY
    ELSE IF Len(parts) = 1 THEN parts[1]
    ELSE parts[1] \o <<sep>> \o join(sep, Tail(parts))

\* s.split(sep): always at least one piece, "".split(";") is [""]
RECURSIVE split(_, _)
split(s, sep) ==
    IF \A i \in 1..Len(s) : s[i] # sep THEN <<s>>
    ELSE LET i == CHOOSE j \in 1..Len(s) :
                      s[j] = sep /\ \A k \in 1..(j - 1) : s[k] # sep
         IN  <<SubSeq(s, 1, i - 1)>> \o split(SubSeq(s, i + 1, Len(s)), sep)

\* x in a_list
InList(x, l) == \E i \in 1..Len(l) : l[i] = x

\* set(a_list)
Elems(l) == {l[i] : i \in 1..Len(l)}

\* sum(d.values()) for a dict of counts
RECURSIVE SumValues(_)
SumValues(d) ==
    IF DOMAIN d = {} THEN 0
    ELSE LET k == CHOOSE k \in DOMAIN d : TRUE
         IN  d[k] + SumValues([j \in DOMAIN d \ {k} |-> d[j]])

\* {} as a dict, and d[key] = value on a dict
EmptyDict == [k \in {} |-> {}]
Put(d, key, value) == [k \in DOMAIN d \cup {key} |-> IF k = key THEN value ELSE d[k]]

\* a fresh Counter keyed by two booleans
NewCounter == [k \in BOOLEAN \X BOOLEAN |-> 0]

\* what a call gives: a value, or the exception it raised
Returned(v) == [exc |-> "", val |-> v]
Raised(e) == [exc |-> e, val |-> <<>>]
\* no direct call of an extraction function made
NoCall == [fn |-> "", class_name |-> EMPTY, out |-> Raised("")]

(***************************************************************************)
(* extract_binary_tally                                                    *)
(***************************************************************************)
\* the mutation: the class is looked up in the expected combination twice
binary_entry_expt_twice(bt, class_name, expt, pred, count) ==
    [bt EXCEPT ![<<InList(class_name, split(expt, SEMI)),
                   InList(class_name, split(expt, SEMI))>>] = @ + count]

\* the mutation: an entry adds one, whatever its count
binary_entry_unweighted(bt, class_name, expt, pred, count) ==
    [bt EXCEPT ![<<InList(class_name, split(expt, SEMI)),
                   InList(class_name, split(pred, SEMI))>>] = @ + 1]

\* the loop body: one tally entry goes to one of the four counts
binary_entry(bt, class_name, expt, pred, count) ==
    [bt EXCEPT ![<<InList(class_name, split(expt, SEMI)),
                   InList(class_name, split(pred, SEMI))>>] = @ + count]

RECURSIVE binary_entries(_, _, _, _)
binary_entries(bt, class_name, tally, keys) ==
    IF keys = {} THEN bt
    ELSE LET k == CHOOSE k \in keys : TRUE
         IN  binary_entries(binary_entry(bt, class_name, k[1], k[2], tally[k]),
                            class_name, tally, keys \ {k})

extract_binary_tally(class_name, tally) ==
    LET bt == binary_entries(NewCounter, class_name, tally, DOMAIN tally)
    IN  <<bt[<<TRUE, TRUE>>], bt[<<FALSE, TRUE>>], bt[<<TRUE, FALSE>>],
          bt[<<FALSE, FALSE>>]>>

(***************************************************************************)
(* extract_global_tally                                                    *)
(***************************************************************************)
\* every label of the tally keys; an empty combination gives none
all_sp(tally) ==
    UNION {(IF k[1] # EMPTY THEN Elems(split(k[1], SEMI)) ELSE {})
           \cup (IF k[2] # EMPTY THEN Elems(split(k[2], SEMI)) ELSE {})
           : k \in DOMAIN tally}

\* the per-class loop over sp_list
RECURSIVE global_classes(_, _, _, _, _)
global_classes(x, expt, pred, count, classes) ==
    IF classes = <<>> THEN x
    ELSE global_classes(
             [x EXCEPT ![<<InList(Head(classes), split(expt, SEMI)),
                           InList(Head(classes), split(pred, SEMI))>>] = @ + count],
             expt, pred, count, Tail(classes))

\* the mutation: the special case counts the entry once, not once per species
global_entry_tn_once(x, expt, pred, count, species) ==
    IF expt = EMPTY /\ pred = EMPTY
    THEN [x EXCEPT ![<<FALSE, FALSE>>] = @ + count]
    ELSE global_classes(x, expt, pred, count, species)

\* the mutation: the special case counts the entry as a match of every species
global_entry_tn_as_tp(x, expt, pred, count, species) ==
    IF expt = EMPTY /\ pred = EMPTY
    THEN [x EXCEPT ![<<TRUE, TRUE>>] = @ + count * Len(species)]
    ELSE global_classes(x, expt, pred, count, species)

\* one tally entry: the TN special case, else the per-class loop
global_entry(x, expt, pred, count, species) ==
    IF expt = EMPTY /\ pred = EMPTY
    THEN [x EXCEPT ![<<FALSE, FALSE>>] = @ + count * Len(species)]
    ELSE global_classes(x, expt, pred, count, species)

RECURSIVE global_entries(_, _, _, _)
global_entries(x, tally, keys, species) ==
    IF keys = {} THEN x
    ELSE LET k == CHOOSE k \in keys : TRUE
         IN  global_entries(global_entry(x, k[1], k[2], tally[k], species),
                            tally, keys \ {k}, species)

\* the mutation: FP and FN change places in the returned tuple
extract_global_tally_swapped(tally, species) ==
    IF EMPTY \in all_sp(tally) \/ \E sp \in all_sp(tally) : ~InList(sp, species)
    THEN Raised("AssertionError")
    ELSE LET x == global_entries(NewCounter, tally, DOMAIN tally, species)
         IN  Returned(<<x[<<TRUE, TRUE>>], x[<<TRUE, FALSE>>],
                        x[<<FALSE, TRUE>>], x[<<FALSE, FALSE>>]>>)

extract_global_tally(tally, species) ==
    IF EMPTY \in all_sp(tally) \/ \E sp \in all_sp(tally) : ~InList(sp, species)
    THEN Raised("AssertionError")
    ELSE LET x == global_entries(NewCounter, tally, DOMAIN tally, species)
         IN  Returned(<<x[<<TRUE, TRUE>>], x[<<FALSE, TRUE>>],
                        x[<<TRUE, FALSE>>], x[<<FALSE, FALSE>>]>>)

(***************************************************************************)
(* The reference data and the input files.                                 *)
(*                                                                         *)
(* species_level, parse_sample_tsv, parse_species_tsv and                  *)
(* file_to_sample_name live in thapbi_pict/utils.py: what a parser returns *)
(* for a file is the content of that file here.                            *)
(***************************************************************************)
Z == <<"Z">>
G == <<"G">>

\* "Genus species" names; G stands for a bare genus
SpeciesLevelNames == {A, B, C, D, Z}
species_level(name) == name \in SpeciesLevelNames

\* the synonym table of the database: Z is another name of A
synonyms == [name \in {Z} |-> A]
\* synonyms.get(name, name)
synonyms_get(name) == IF name \in DOMAIN synonyms THEN synonyms[name] ELSE name

\* the species lists the database can hold (sorted, as main builds them)
DbSpLists == {<<>>, <<A>>, <<A, B>>}
\* the marker argument: None or a marker name
Markers == {EMPTY, <<"M1">>}

Samples == {"s1", "s2", "s3"}

\* a file parse_sample_tsv reads: its samples, the (marker, idn, sample) keys
\* with a retained count, and the genus-species annotation of the sequences
TallyFile(meta, counted, mk, annotated, gs) ==
    [parse |-> "tally", sample |-> "", recs |-> <<>>, sample_meta |-> meta,
     counts |-> {<<mk, "i1", smp>> : smp \in counted},
     seq_meta |-> [k \in (IF annotated THEN {<<mk, "i1">>} ELSE {}) |-> gs]]
\* a file parse_sample_tsv rejects for its missing header line: the legacy
\* file of one sample, with the species fields parse_species_tsv yields
LegacyFile(smp, records) ==
    [parse |-> "missing header", sample |-> smp, recs |-> records,
     sample_meta |-> {}, counts |-> {}, seq_meta |-> EmptyDict]
\* a file parse_sample_tsv rejects for another reason
BadFile ==
    [parse |-> "error", sample |-> "", recs |-> <<>>, sample_meta |-> {},
     counts |-> {}, seq_meta |-> EmptyDict]

\* the files a run can be given (as method files or as known files)
Files ==
    {TallyFile(Samples, {"s1", "s3"}, <<"M1">>, TRUE, A),
     TallyFile(Samples, {"s1", "s2"}, <<"M1">>, TRUE, A),
     TallyFile(Samples, {"s1"}, <<"M1">>, TRUE, <<"B", ";", "Z">>),
     TallyFile(Samples, {"s1"}, <<"M1">>, TRUE, <<"G", ";", "B">>),
     TallyFile(Samples, {"s1"}, <<"M1">>, FALSE, EMPTY),
     TallyFile(Samples, {"s2"}, <<"M2">>, TRUE, A),
     LegacyFile("s1", <<>>),
     LegacyFile("s1", <<Z, <<"G", ";", "B">>>>),
     LegacyFile("s2", <<B>>),
     BadFile}

NoneLoaded == [role \in {"method", "known"} |-> {}]

(***************************************************************************)
(* The loader loop of main.                                                *)
(***************************************************************************)
\* species.update(sp.split(";")) over the records of the file
RECURSIVE tsv_species(_)
tsv_species(records) ==
    IF records = <<>> THEN {}
    ELSE Elems(split(Head(records), SEMI)) \cup tsv_species(Tail(records))

sp_in_tsv(records) ==
    join(SEMI, sorted({name \in tsv_species(records) : species_level(name)}))

\* the labels the legacy branch computes for the sample of the file
legacy_genus_species(f) ==
    {synonyms_get(name) : name \in Elems(split(sp_in_tsv(f.recs), SEMI))}

\* the legacy branch: update the sample's set, or make it
load_legacy(sample_dict, f) ==
    IF f.sample \in DOMAIN sample_dict
    THEN [sample_dict EXCEPT ![f.sample] = @ \cup legacy_genus_species(f)]
    ELSE Put(sample_dict, f.sample, legacy_genus_species(f))

\* the mutation: every sample of the file starts again from an empty set
register_samples_reset(sample_dict, sample_meta) ==
    [smp \in DOMAIN sample_dict \cup sample_meta |->
        IF smp \in sample_meta THEN {} ELSE sample_dict[smp]]

\* "Zero count samples would otherwise be omitted"
register_samples(sample_dict, sample_meta) ==
    [smp \in DOMAIN sample_dict \cup sample_meta |->
        IF smp \in DOMAIN sample_dict THEN sample_dict[smp] ELSE {}]

\* the labels of one counts entry (marker2, idn, sample)
counts_genus_species(f, key) ==
    {synonyms_get(name) :
        name \in {n \in Elems(split(f.seq_meta[<<key[1], key[2]>>], SEMI)) : species_level(n)}}

\* the loop over counts.items(), once no entry is fatal
RECURSIVE load_counts(_, _, _)
load_counts(sample_dict, f, keys) ==
    IF keys = {} THEN sample_dict
    ELSE LET key == CHOOSE k \in keys : TRUE
             smp == key[3]
             genus_species == counts_genus_species(f, key)
         IN  load_counts(IF smp \in DOMAIN sample_dict
                         THEN [sample_dict EXCEPT ![smp] = @ \cup genus_species]
                         ELSE Put(sample_dict, smp, genus_species),
                         f, keys \ {key})

\* the sys.exit messages the loop over counts.items() can end with
counts_errors(f, mk) ==
    {"ERROR: Assessing marker, found another" :
        key \in {k \in f.counts : mk # EMPTY /\ mk # k[1]}}
    \cup {"ERROR: No genus-species" :
        key \in {k \in f.counts : <<k[1], k[2]>> \notin DOMAIN f.seq_meta}}

\* the mutation: every ValueError of the parser is taken as a legacy file
load_file_any_error_is_legacy(sample_dict, f, mk) ==
    IF f.parse \in {"error", "missing header"}
    THEN [errors |-> {}, dict |-> load_legacy(sample_dict, f)]
    ELSE IF counts_errors(f, mk) # {}
    THEN [errors |-> counts_errors(f, mk), dict |-> sample_dict]
    ELSE [errors |-> {},
          dict |-> load_counts(register_samples(sample_dict, f.sample_meta), f, f.counts)]

\* one iteration of "for filename in filenames": the new sample_dict, or the
\* messages the run can exit with
load_file(sample_dict, f, mk) ==
    IF f.parse = "error"
    THEN [errors |-> {"ERROR: Unable to parse"}, dict |-> sample_dict]
    ELSE IF f.parse = "missing header"
    THEN [errors |-> {}, dict |-> load_legacy(sample_dict, f)]
    ELSE IF counts_errors(f, mk) # {}
    THEN [errors |-> counts_errors(f, mk), dict |-> sample_dict]
    ELSE [errors |-> {},
          dict |-> load_counts(register_samples(sample_dict, f.sample_meta), f, f.counts)]

(***************************************************************************)
(* The tally and the evaluation species list.                              *)
(***************************************************************************)
\* d.get(key, 0) on a dict of counts
Get0(d, key) == IF key \in DOMAIN d THEN d[key] ELSE 0

\* the mutation: a pair met again is set to one instead of counted up
tally_add_reset(tally, expt, pred) == Put(tally, <<expt, pred>>, 1)

\* global_tally[expt, pred] = global_tally.get((expt, pred), 0) + 1
tally_add(tally, expt, pred) ==
    Put(tally, <<expt, pred>>, Get0(tally, <<expt, pred>>) + 1)

\* the orders a Python set can be iterated in
Orders(S) == {q \in [1..Cardinality(S) -> S] : \A x \in S : \E i \in DOMAIN q : q[i] = x}

\* "for sample in samples", in the order the set of common samples is
\* iterated in: the expected and predicted combination of each
RECURSIVE build_tally(_, _, _, _)
build_tally(tally, smps, known, method) ==
    IF smps = <<>> THEN tally
    ELSE build_tally(tally_add(tally, join(SEMI, sorted(known[Head(smps)])),
                               join(SEMI, sorted(method[Head(smps)]))),
                     Tail(smps), known, method)

\* the keys of global_tally in insertion order (the order a dict is iterated in)
RECURSIVE tally_keys(_, _, _, _)
tally_keys(keys, smps, known, method) ==
    IF smps = <<>> THEN keys
    ELSE LET key == <<join(SEMI, sorted(known[Head(smps)])),
                      join(SEMI, sorted(method[Head(smps)]))>>
         IN  tally_keys(IF InList(key, keys) THEN keys ELSE Append(keys, key),
                        Tail(smps), known, method)

\* the mutation: a prediction outside the database is passed over
RECURSIVE first_pred_error_no_exit(_, _)
first_pred_error_no_exit(p_list, db) ==
    IF p_list = <<>> THEN ""
    ELSE IF ~species_level(Head(p_list)) THEN "AssertionError"
    ELSE first_pred_error_no_exit(Tail(p_list), db)

\* "for sp in pred.split(";")": how the loop ends early, "" if it does not
RECURSIVE first_pred_error(_, _)
first_pred_error(p_list, db) ==
    IF p_list = <<>> THEN ""
    ELSE IF ~species_level(Head(p_list)) THEN "AssertionError"
    ELSE IF ~InList(Head(p_list), db)
    THEN "ERROR: Predicted species was not in the database!"
    ELSE first_pred_error(Tail(p_list), db)

\* one tally key: the expected labels are asserted first, then the predicted
class_list_entry_error(key, db) ==
    IF key[1] # EMPTY /\ \E sp \in Elems(split(key[1], SEMI)) : ~species_level(sp)
    THEN "AssertionError"
    ELSE IF key[2] # EMPTY THEN first_pred_error(split(key[2], SEMI), db)
    ELSE ""

\* the classes, the expected species that are no possible prediction, and the
\* ways the function can end early (the tally is walked in dict order, so the
\* first key that fails can be any key that fails)
class_list_from_tally_and_db_list(tally, db) ==
    [errors |-> {class_list_entry_error(key, db) : key \in DOMAIN tally} \ {""},
     impossible |-> {sp \in UNION {IF key[1] # EMPTY THEN Elems(split(key[1], SEMI)) ELSE {}
                                   : key \in DOMAIN tally} : ~InList(sp, db)},
     classes |-> sorted(all_sp(tally) \cup Elems(db))]

\* sp_list.remove("")
RECURSIVE list_remove(_, _)
list_remove(l, x) ==
    IF l = <<>> THEN <<>>
    ELSE IF Head(l) = x THEN Tail(l)
    ELSE <<Head(l)>> \o list_remove(Tail(l), x)

(***************************************************************************)
(* save_mapping                                                            *)
(***************************************************************************)
\* tuple comparison of two tally keys
KeyLess(a, b) == StrLess(a[1], b[1]) \/ (a[1] = b[1] /\ StrLess(a[2], b[2]))

\* sorted() of a list: insertion sort
RECURSIVE sorted_insert(_, _)
sorted_insert(l, x) ==
    IF l = <<>> THEN <<x>>
    ELSE IF KeyLess(x, Head(l)) THEN <<x>> \o l
    ELSE <<Head(l)>> \o sorted_insert(Tail(l), x)
RECURSIVE sorted_keys(_)
sorted_keys(keys) ==
    IF keys = <<>> THEN <<>>
    ELSE sorted_insert(sorted_keys(SubSeq(keys, 1, Len(keys) - 1)), keys[Len(keys)])

\* the rows for the keys in the order given
mapping_rows(tally, keys) ==
    [i \in 1..Len(keys) |-> <<tally[keys[i]], keys[i][1], keys[i][2]>>]

\* the mutation: the rows in the order of the dict, not sorted
save_mapping_dict_order(tally, keys) == mapping_rows(tally, keys)

\* the rows written under the header: count, expected, predicted, for
\* "for expt, pred in sorted(tally)"; keys is the dict's own order
save_mapping(tally, keys) == mapping_rows(tally, sorted_keys(keys))

(***************************************************************************)
(* save_confusion_matrix                                                   *)
(***************************************************************************)
TN == <<"(TN)">>
FN == <<"(FN)">>
NONE == <<"(None)">>

\* the mutation: a species both predicted and expected is counted under its
\* own column and under (FN)
confusion_cell_twice(values, expt, p_list, e_list, sp, count) ==
    LET v == IF InList(sp, p_list)
             THEN Put(values, <<expt, sp>>, Get0(values, <<expt, sp>>) + count)
             ELSE values
    IN  IF InList(sp, e_list)
        THEN Put(v, <<expt, FN>>, Get0(v, <<expt, FN>>) + count)
        ELSE IF InList(sp, p_list) THEN v
        ELSE Put(v, <<expt, TN>>, Get0(v, <<expt, TN>>) + count)

\* the mutation: (FN) and (TN) change places
confusion_cell_fn_tn_swapped(values, expt, p_list, e_list, sp, count) ==
    IF InList(sp, p_list)
    THEN Put(values, <<expt, sp>>, Get0(values, <<expt, sp>>) + count)
    ELSE IF InList(sp, e_list)
    THEN Put(values, <<expt, TN>>, Get0(values, <<expt, TN>>) + count)
    ELSE Put(values, <<expt, FN>>, Get0(values, <<expt, FN>>) + count)

\* one species of one tally entry: its own column, (FN) or (TN)
confusion_cell(values, expt, p_list, e_list, sp, count) ==
    IF InList(sp, p_list)
    THEN Put(values, <<expt, sp>>, Get0(values, <<expt, sp>>) + count)
    ELSE IF InList(sp, e_list)
    THEN Put(values, <<expt, FN>>, Get0(values, <<expt, FN>>) + count)
    ELSE Put(values, <<expt, TN>>, Get0(values, <<expt, TN>>) + count)

\* "for sp in sp_list"
RECURSIVE confusion_species(_, _, _, _, _, _)
confusion_species(values, expt, p_list, e_list, species, count) ==
    IF species = <<>> THEN values
    ELSE confusion_species(
             confusion_cell(values, expt, p_list, e_list, Head(species), count),
             expt, p_list, e_list, Tail(species), count)

\* "for (expt, pred), count in tally.items()"
RECURSIVE confusion_values(_, _, _, _)
confusion_values(values, tally, keys, species) ==
    IF keys = {} THEN values
    ELSE LET key == CHOOSE k \in keys : TRUE
         IN  confusion_values(
                 confusion_species(values,
                                   IF key[1] # EMPTY THEN key[1] ELSE NONE,
                                   IF key[2] # EMPTY THEN split(key[2], SEMI) ELSE <<>>,
                                   IF key[1] # EMPTY THEN split(key[1], SEMI) ELSE <<>>,
                                   species, tally[key]),
                 tally, keys \ {key}, species)

\* the species of the predicted combinations
confusion_predicted(tally) ==
    UNION {IF key[2] # EMPTY THEN Elems(split(key[2], SEMI)) ELSE {} : key \in DOMAIN tally}

confusion_cols(tally) == <<TN, FN>> \o sorted(confusion_predicted(tally))

\* the mutation: the expected combinations in one sorted list
confusion_rows_all_sorted(tally, species) ==
    (IF \E key \in DOMAIN tally : key[1] = EMPTY THEN <<NONE>> ELSE <<>>)
    \o sorted({key[1] : key \in {k \in DOMAIN tally : k[1] # EMPTY}})

\* None (if expected), then the single species, then the combinations
confusion_rows(tally, species) ==
    (IF \E key \in DOMAIN tally : key[1] = EMPTY THEN <<NONE>> ELSE <<>>)
    \o sorted({key[1] : key \in {k \in DOMAIN tally : InList(k[1], species)}})
    \o sorted({key[1] : key \in {k \in DOMAIN tally :
                                    k[1] # EMPTY /\ ~InList(k[1], species)}})

\* the sample count written in the row of expt
level_count(tally, expt) ==
    SumValues([key \in {k \in DOMAIN tally :
                          IF expt = NONE THEN k[1] = EMPTY ELSE k[1] = expt} |-> tally[key]])

\* the asserts of the function that can fail
confusion_asserts_fail(tally, db, species, exp_total) ==
    \/ InList(EMPTY, db)
    \/ InList(EMPTY, species)
    \/ \E sp \in Elems(db) : ~InList(sp, species)
    \/ \E sp \in Elems(species) : ~species_level(sp)
    \/ \E sp \in confusion_predicted(tally) : ~InList(sp, db)
    \/ Len(species) * SumValues(tally) # exp_total

\* the table written, the total of its Counter, and how the call ends
save_confusion_matrix(tally, db, species, exp_total) ==
    IF confusion_asserts_fail(tally, db, species, exp_total)
    THEN [written |-> FALSE, table |-> <<>>, total |-> 0, end |-> "AssertionError"]
    ELSE LET values == confusion_values(EmptyDict, tally, DOMAIN tally, species)
             cols == confusion_cols(tally)
             rows == confusion_rows(tally, species)
             total == SumValues(values)
         IN  [written |-> TRUE,
              table |-> [cols |-> cols,
                         rows |-> [i \in 1..Len(rows) |->
                                     [expt |-> rows[i],
                                      count |-> level_count(tally, rows[i]),
                                      cells |-> [j \in 1..Len(cols) |->
                                                   Get0(values, <<rows[i], cols[j]>>)]]]],
              total |-> total,
              end |-> IF total < SumValues(tally) THEN "AssertionError"
                      ELSE IF total # exp_total
                      THEN "ERROR: Expected but confusion matrix total"
                      ELSE ""]

(***************************************************************************)
(* The metrics table of main.                                              *)
(***************************************************************************)
\* a float quotient kept exact: <<numerator, denominator>>
Zero == <<0, 1>>

\* the mutation: the quotient without its "if tp else 0.0"
sensitivity_unguarded(tp, fp, fn, tn) == <<tp, tp + fn>>

\* the six ratios of a row; a denominator of 0 is a ZeroDivisionError
sensitivity(tp, fp, fn, tn) == IF tp # 0 THEN <<tp, tp + fn>> ELSE Zero
specificity(tp, fp, fn, tn) == IF tn # 0 THEN <<tn, tn + fp>> ELSE Zero
precision(tp, fp, fn, tn) == IF tp # 0 THEN <<tp, tp + fp>> ELSE Zero
f1(tp, fp, fn, tn) == IF tp # 0 THEN <<tp * 2, 2 * tp + fp + fn>> ELSE Zero
\* ZeroDivisionError is caught
hamming_loss(tp, fp, fn, tn) ==
    IF tp + fp + fn + tn = 0 THEN Zero ELSE <<fp + fn, tp + fp + fn + tn>>
ad_hoc_loss(tp, fp, fn, tn) ==
    IF tp + fp + fn = 0 THEN Zero ELSE <<fp + fn, tp + fp + fn>>

\* a line of the table: kind is "OVERALL", "species" or "OTHER"; name is the
\* species, n the N of "OTHER N SPECIES IN DB"
metrics_row(kind, name, n, v) ==
    [kind |-> kind, name |-> name, n |-> n,
     tp |-> v[1], fp |-> v[2], fn |-> v[3], tn |-> v[4],
     sensitivity |-> sensitivity(v[1], v[2], v[3], v[4]),
     specificity |-> specificity(v[1], v[2], v[3], v[4]),
     precision |-> precision(v[1], v[2], v[3], v[4]),
     f1 |-> f1(v[1], v[2], v[3], v[4]),
     hamming_loss |-> hamming_loss(v[1], v[2], v[3], v[4]),
     ad_hoc_loss |-> ad_hoc_loss(v[1], v[2], v[3], v[4])]

\* "if tp == fp == fn": the line is left out as database padding
boring(tp, fp, fn) == tp = fp /\ fp = fn

\* the species part of "for sp in ["", *sp_list, None]"
RECURSIVE metrics_species(_, _, _)
metrics_species(acc, species, tally) ==
    IF species = <<>> THEN acc
    ELSE LET sp == Head(species)
             v == extract_binary_tally(sp, tally)
             total2 == acc.multi_class_total2 + v[1] + v[2] + v[3] + v[4]
         IN  IF ~species_level(sp)
             THEN [acc EXCEPT !.end = "AssertionError"]
             ELSE IF boring(v[1], v[2], v[3])
             THEN metrics_species(
                      [acc EXCEPT !.multi_class_total2 = total2,
                                  !.boring_species_tn = @ + v[4],
                                  !.boring_species_count = @ + 1],
                      Tail(species), tally)
             ELSE metrics_species(
                      [acc EXCEPT !.multi_class_total2 = total2,
                                  !.rows = Append(@, metrics_row("species", sp, 0, v))],
                      Tail(species), tally)

\* the whole loop and the two checks after it: the lines written and how the
\* function ends ("" when it goes on to return 0)
metrics_table(tally, species, exp_total) ==
    LET overall == extract_global_tally(tally, species)
    IN  IF overall.exc # ""
        THEN [rows |-> <<>>, end |-> overall.exc]
        ELSE
        LET total1 == overall.val[1] + overall.val[2] + overall.val[3] + overall.val[4]
            acc == metrics_species(
                       [rows |-> <<metrics_row("OVERALL", EMPTY, 0, overall.val)>>,
                        multi_class_total2 |-> 0, boring_species_count |-> 0,
                        boring_species_tn |-> 0, end |-> ""],
                       species, tally)
            rows == IF acc.end = "" /\ acc.boring_species_count # 0
                    THEN Append(acc.rows,
                                metrics_row("OTHER", EMPTY, acc.boring_species_count,
                                            <<0, 0, 0, acc.boring_species_tn>>))
                    ELSE acc.rows
        IN  [rows |-> rows,
             end |-> IF acc.end # "" THEN acc.end
                     ELSE IF total1 # exp_total
                     THEN "ERROR: Overall TP+FP+FN+TP, but species times samples"
                     ELSE IF total1 # acc.multi_class_total2 /\ acc.multi_class_total2 # 0
                     THEN "ERROR: Overall TP+FP+FN+TP, but sum for species"
                     ELSE ""]

(***************************************************************************)
(* scripts/pooling.py: pool(), which pools the rows of a sample report by  *)
(* their metadata.  The report has one metadata column that is pooled on   *)
(* (-c 1), a second metadata column that may be named as the pending       *)
(* column (-p 2), then "Sequencing sample", "Seq-count", "Unknown" and one *)
(* species column.  A field is a str, hence a sequence of characters.      *)
(***************************************************************************)
MaxLines == 3

DASH == <<"-">>
QUERY == <<"?">>
\* the columns from "Unknown" on
sp_headers == <<"Unknown", "Phytophthora">>
\* sp_null = ["-"] * len(sp_headers)
sp_null == [i \in 1..Len(sp_headers) |-> DASH]
\* the number of metadata columns: min(sample_col, count_col, unk_col)
MetaCols == 2

\* one line of the report after split("\t")
Row(meta, pending, samples, sp_counts) ==
    [meta |-> meta, pending |-> pending, samples |-> samples, sp_counts |-> sp_counts]

\* the lines a report is made of here
Rows ==
    { Row("m1", <<"Y">>, <<"1">>, sp_null),
      Row("m1", <<"N">>, <<"2">>, <<<<"0">>, <<"3">>>>),
      Row("m1", <<" ", "y", "e", "s">>, <<"3">>, <<<<"1">>, <<"0">>>>),
      Row("m2", EMPTY, DASH, sp_null),
      Row("m2", <<"t", "r", "u", "e">>, <<"4", ";", "5">>, <<<<"1", "2">>, <<"0">>>>),
      Row("m1", EMPTY, <<"1">>, sp_null) }

\* the reports of at most MaxLines lines
Tables == UNION {[1..n -> Rows] : n \in 0..MaxLines}

\* the values of -p after int(): 0 for no pending column, 2, and one out of range
PendingOptions == {0, 2, 9}
PoolOptions == [pending : PendingOptions, boolean : BOOLEAN, hide_zeros : BOOLEAN]

\* str.upper() on one character
Upper(c) ==
    CASE c = "y" -> "Y" [] c = "e" -> "E" [] c = "s" -> "S" [] c = "t" -> "T"
      [] c = "r" -> "R" [] c = "u" -> "U" [] c = "n" -> "N" [] OTHER -> c
upper(s) == [i \in 1..Len(s) |-> Upper(s[i])]

\* str.strip()
RECURSIVE lstrip(_)
lstrip(s) == IF s # <<>> /\ Head(s) = " " THEN lstrip(Tail(s)) ELSE s
RECURSIVE rstrip(_)
rstrip(s) == IF s # <<>> /\ s[Len(s)] = " " THEN rstrip(SubSeq(s, 1, Len(s) - 1)) ELSE s
strip(s) == rstrip(lstrip(s))

\* int() of a decimal str and str() of a count
DigitValue(c) ==
    CASE c = "0" -> 0 [] c = "1" -> 1 [] c = "2" -> 2 [] c = "3" -> 3 [] c = "4" -> 4
      [] c = "5" -> 5 [] c = "6" -> 6 [] c = "7" -> 7 [] c = "8" -> 8 [] c = "9" -> 9
Digits == <<"0", "1", "2", "3", "4", "5", "6", "7", "8", "9">>
RECURSIVE int(_)
int(s) == IF Len(s) = 1 THEN DigitValue(s[1])
          ELSE 10 * int(SubSeq(s, 1, Len(s) - 1)) + DigitValue(s[Len(s)])
RECURSIVE str(_)
str(n) == IF n < 10 THEN <<Digits[n + 1]>> ELSE str(n \div 10) \o <<Digits[(n % 10) + 1]>>

\* meta_species[meta] is None, or the numpy array of the counts
None == [sequenced |-> FALSE, counts |-> <<>>]
Array(counts) == [sequenced |-> TRUE, counts |-> counts]

\* the value stored in meta_pending for a line
is_pending(column_pending, field) ==
    IF column_pending = 0 THEN FALSE
    ELSE strip(upper(field)) \in {<<"Y">>, <<"Y", "E", "S">>, <<"T", "R", "U", "E">>}

\* samples = [_ for _ in parts[sample_col].split(";") if _ != "-"], as a set
line_samples(field) == Elems(split(field, SEMI)) \ {DASH}

\* numpy array addition
array_add(a, b) == [i \in 1..Len(a) |-> a[i] + b[i]]

\* the body of the loop over the lines: the three dicts after one line, or
\* the AssertionError of a line that is sequenced in part
pool_line(samples, species, pending, parts, column_pending) ==
    LET meta == <<parts.meta>>
        new_pending == Put(pending, meta, is_pending(column_pending, parts.pending))
        smps == line_samples(parts.samples)
        new_samples == IF meta \in DOMAIN samples
                       THEN Put(samples, meta, samples[meta] \cup smps)
                       ELSE Put(samples, meta, smps)
    IN  IF parts.sp_counts = sp_null
        THEN [end |-> "", meta_pending |-> new_pending, meta_samples |-> new_samples,
              meta_species |-> IF meta \in DOMAIN samples THEN species
                               ELSE Put(species, meta, None)]
        ELSE IF \E i \in 1..Len(parts.sp_counts) : parts.sp_counts[i] = DASH
        THEN [end |-> "AssertionError", meta_pending |-> new_pending,
              meta_samples |-> samples, meta_species |-> species]
        ELSE LET sp_counts == [i \in 1..Len(parts.sp_counts) |-> int(parts.sp_counts[i])]
             IN  [end |-> "", meta_pending |-> new_pending, meta_samples |-> new_samples,
                  meta_species |->
                      IF meta \in DOMAIN samples /\ species[meta] # None
                      THEN Put(species, meta,
                               Array(array_add(species[meta].counts, sp_counts)))
                      ELSE Put(species, meta, Array(sp_counts))]

\* the keys of meta_species in insertion order: the metadata of the lines
\* in the order of their first line
RECURSIVE meta_order(_)
meta_order(lines) ==
    IF lines = <<>> THEN <<>>
    ELSE LET before == meta_order(SubSeq(lines, 1, Len(lines) - 1))
             meta == <<lines[Len(lines)].meta>>
         IN  IF InList(meta, before) THEN before ELSE Append(before, meta)

\* total_counts = sum(v for v in meta_species.values() if v is not None); the
\* int 0 that sum() gives when there is no array is <<>> here
RECURSIVE total_counts(_, _)
total_counts(species, metas) ==
    IF metas = {} THEN <<>>
    ELSE LET meta == CHOOSE m \in metas : TRUE
             rest == total_counts(species, metas \ {meta})
         IN  IF species[meta] = None THEN rest
             ELSE IF rest = <<>> THEN species[meta].counts
             ELSE array_add(rest, species[meta].counts)

\* [v for v, t in zip(values, total_counts) if t]
RECURSIVE zip_if(_, _)
zip_if(values, totals) ==
    IF values = <<>> \/ totals = <<>> THEN <<>>
    ELSE (IF Head(totals) # 0 THEN <<Head(values)>> ELSE <<>>)
         \o zip_if(Tail(values), Tail(totals))

\* display: str, or Y/N with --boolean
display(show_boolean, count) ==
    IF show_boolean THEN (IF count # 0 THEN <<"Y">> ELSE <<"N">>) ELSE str(count)

Line(meta, n, cells) == [meta |-> meta, n |-> n, cells |-> cells]

\* the lines written for one key of meta_species
meta_lines(meta, sp_counts, samples, pending, headers, show_boolean) ==
    LET n == str(Cardinality(samples[meta]))
    IN  (IF sp_counts # None
         THEN <<Line(meta, n, [i \in 1..Len(sp_counts.counts) |->
                                  display(show_boolean, sp_counts.counts[i])])>>
         ELSE <<>>)
        \o (IF pending[meta] THEN <<Line(meta, n, [i \in 1..Len(headers) |-> QUERY])>>
            ELSE IF sp_counts = None
            THEN <<Line(meta, n, [i \in 1..Len(headers) |-> DASH])>>
            ELSE <<>>)

RECURSIVE pool_lines(_, _, _, _, _, _)
pool_lines(order, species, samples, pending, headers, show_boolean) ==
    IF order = <<>> THEN <<>>
    ELSE meta_lines(Head(order), species[Head(order)], samples, pending, headers,
                    show_boolean)
         \o pool_lines(Tail(order), species, samples, pending, headers, show_boolean)

\* after the loop: the totals, --hide-zeros, and the lines of the output file
pool_write(order, species, samples, pending, opts) ==
    LET totals == total_counts(species, DOMAIN species)
    IN  IF totals = <<>> THEN [end |-> "TypeError", lines |-> <<>>]
        ELSE LET headers == IF opts.hide_zeros THEN zip_if(sp_headers, totals)
                            ELSE sp_headers
                 shown == [meta \in DOMAIN species |->
                              IF opts.hide_zeros /\ species[meta] # None
                              THEN Array(zip_if(species[meta].counts, totals))
                              ELSE species[meta]]
             IN  [end |-> "",
                  lines |-> pool_lines(order, shown, samples, pending, headers,
                                       opts.boolean)]

\* the pooling script has not run
PoolIdle ==
    /\ tsv = <<>>
    /\ line_no = 0
    /\ options = [pending |-> 0, boolean |-> FALSE, hide_zeros |-> FALSE]
    /\ meta_samples = EmptyDict
    /\ meta_species = EmptyDict
    /\ meta_pending = EmptyDict
    /\ pooled = <<>>

(***************************************************************************)
(* main, step by step.  The three reports are all asked for, each as a     *)
(* file.  status is "running", "return 0", or what ended the process: the  *)
(* message of sys.exit or the name of the exception.                       *)
(***************************************************************************)
\* the sets of input files find_requested_files can give
FileLists == {S \in SUBSET Files : Cardinality(S) <= MaxFiles}

Init ==
    /\ pc = "start"
    /\ marker \in Markers
    /\ db_sp_list \in DbSpLists
    /\ method_filenames \in FileLists
    /\ known_filenames \in {S \in FileLists :
                               Cardinality(S) + Cardinality(method_filenames) <= MaxFiles}
    /\ loaded = NoneLoaded
    /\ method_sp = EmptyDict
    /\ known_sp = EmptyDict
    /\ global_tally = EmptyDict
    /\ sp_list = <<>>
    /\ reports = EmptyDict
    /\ status = "running"
    /\ warnings = {}
    /\ call = NoCall
    /\ tally_order = <<>>
    /\ PoolIdle

\* the process ends with a message or an exception
Exit(why) == pc' = "exit" /\ status' = why

\* up to the loader loop: the file names and the database
Start ==
    /\ pc = "start"
    /\ IF method_filenames = {} THEN Exit("ERROR: Need file(s) named *.method.tsv")
       ELSE IF known_filenames = {} THEN Exit("ERROR: Need file(s) named *.known.tsv")
       ELSE IF db_sp_list = <<>> THEN Exit("ERROR: No species listed in DB")
       ELSE IF \E sp \in Elems(db_sp_list) : ~species_level(sp) THEN Exit("AssertionError")
       ELSE pc' = "load" /\ status' = status
    /\ UNCHANGED <<marker, db_sp_list, method_filenames, known_filenames, loaded,
                   method_sp, known_sp, global_tally, sp_list, reports, warnings, call>>
    /\ UNCHANGED <<tally_order, pool_vars>>

\* one file of the loader loop: the method files first, then the known
\* files, each list in the order find_requested_files gave (any order)
LoadFile ==
    /\ pc = "load"
    /\ LET role == IF loaded["method"] # method_filenames THEN "method" ELSE "known"
           todo == IF role = "method" THEN method_filenames \ loaded["method"]
                   ELSE known_filenames \ loaded["known"]
       IN  \E f \in todo :
             LET r == load_file(IF role = "method" THEN method_sp ELSE known_sp, f, marker)
             IN  IF r.errors # {}
                 THEN /\ \E e \in r.errors : Exit(e)
                      /\ UNCHANGED <<loaded, method_sp, known_sp>>
                 ELSE /\ loaded' = [loaded EXCEPT ![role] = @ \cup {f}]
                      /\ method_sp' = IF role = "method" THEN r.dict ELSE method_sp
                      /\ known_sp' = IF role = "known" THEN r.dict ELSE known_sp
                      /\ UNCHANGED <<pc, status>>
    /\ UNCHANGED <<marker, db_sp_list, method_filenames, known_filenames,
                   global_tally, sp_list, reports, warnings, call>>
    /\ UNCHANGED <<tally_order, pool_vars>>

\* the mutation: the run goes on without a shared sample
no_shared_samples_never(smps) == FALSE

\* "if not samples" at line 530
no_shared_samples(smps) == smps = {}

\* after the loop: the common samples and the tally
BuildTally ==
    /\ pc = "load"
    /\ loaded["method"] = method_filenames
    /\ loaded["known"] = known_filenames
    /\ LET smps == DOMAIN method_sp \cap DOMAIN known_sp
       IN  IF no_shared_samples(smps)
           THEN Exit("ERROR: No shared samples") /\ UNCHANGED <<global_tally, tally_order>>
           ELSE \E order \in Orders(smps) :
                LET tally == build_tally(EmptyDict, order, known_sp, method_sp)
                IN  IF Cardinality(smps) # SumValues(tally)
                    THEN Exit("AssertionError: len(samples) == sum(global_tally.values())")
                         /\ UNCHANGED <<global_tally, tally_order>>
                    ELSE /\ global_tally' = tally
                         /\ tally_order' = tally_keys(<<>>, order, known_sp, method_sp)
                         /\ pc' = "classes"
                         /\ status' = status
    /\ UNCHANGED <<marker, db_sp_list, method_filenames, known_filenames, loaded,
                   method_sp, known_sp, sp_list, reports, warnings, call>>
    /\ UNCHANGED pool_vars

\* the evaluation species list
ClassList ==
    /\ pc = "classes"
    /\ LET r == class_list_from_tally_and_db_list(global_tally, db_sp_list)
           species == IF InList(EMPTY, r.classes) THEN list_remove(r.classes, EMPTY)
                      ELSE r.classes
       IN  IF r.errors # {}
           THEN /\ \E e \in r.errors : Exit(e)
                /\ UNCHANGED <<sp_list, warnings>>
           ELSE IF species = <<>> \/ \E sp \in Elems(species) : ~species_level(sp)
           THEN /\ Exit("AssertionError")
                /\ warnings' = r.impossible
                /\ UNCHANGED sp_list
           ELSE /\ sp_list' = species
                /\ warnings' = r.impossible
                /\ pc' = "map"
                /\ status' = status
    /\ UNCHANGED <<marker, db_sp_list, method_filenames, known_filenames, loaded,
                   method_sp, known_sp, global_tally, reports, call>>
    /\ UNCHANGED <<tally_order, pool_vars>>

\* the mapping table
SaveMapping ==
    /\ pc = "map"
    /\ reports' = Put(reports, "map", save_mapping(global_tally, tally_order))
    /\ pc' = "confusion"
    /\ UNCHANGED <<marker, db_sp_list, method_filenames, known_filenames, loaded,
                   method_sp, known_sp, global_tally, sp_list, status, warnings, call>>
    /\ UNCHANGED <<tally_order, pool_vars>>

\* the confusion matrix
SaveConfusion ==
    /\ pc = "confusion"
    /\ LET r == save_confusion_matrix(global_tally, db_sp_list, sp_list,
                                      Len(sp_list) * SumValues(global_tally))
       IN  /\ reports' = IF r.written
                         THEN Put(reports, "confusion", [table |-> r.table, total |-> r.total])
                         ELSE reports
           /\ IF r.end # "" THEN Exit(r.end) ELSE pc' = "assess" /\ status' = status
    /\ UNCHANGED <<marker, db_sp_list, method_filenames, known_filenames, loaded,
                   method_sp, known_sp, global_tally, sp_list, warnings, call>>
    /\ UNCHANGED <<tally_order, pool_vars>>

\* the metrics table, the two cross-checks and "return 0"
Assess ==
    /\ pc = "assess"
    /\ LET r == metrics_table(global_tally, sp_list, Len(sp_list) * SumValues(global_tally))
       IN  /\ reports' = Put(reports, "assess", r.rows)
           /\ IF r.end # "" THEN Exit(r.end) ELSE pc' = "done" /\ status' = "return 0"
    /\ UNCHANGED <<marker, db_sp_list, method_filenames, known_filenames, loaded,
                   method_sp, known_sp, global_tally, sp_list, warnings, call>>
    /\ UNCHANGED <<tally_order, pool_vars>>

Next == Start \/ LoadFile \/ BuildTally \/ ClassList \/ SaveMapping \/ SaveConfusion \/ Assess

Spec == Init /\ [][Next]_vars

\* the exit status of the process once it has ended
ExitStatus == IF status = "return 0" THEN 0 ELSE 1

(***************************************************************************)
(* The extraction functions called on their own: any tally of at most      *)
(* MaxEntries entries over the combinations below, any of the species      *)
(* lists below, any class name.                                            *)
(***************************************************************************)
CallExpected == {EMPTY, A, <<"A", ";", "B">>}
CallPredicted == {EMPTY, A, B, <<"A", ";", "B">>, <<"A", ";", "C">>, <<";", "A">>}
CallKeys == CallExpected \X CallPredicted
CallTallies ==
    UNION {[K -> 1..MaxCount] : K \in {K \in SUBSET CallKeys : Cardinality(K) <= MaxEntries}}
CallSpLists == {<<A>>, <<A, B>>, <<A, B, C>>, <<A, B, C, D>>}
CallClasses == {A, B, C, D}

InitCall ==
    /\ pc = "call"
    /\ global_tally \in CallTallies
    /\ sp_list \in CallSpLists
    /\ call = NoCall
    /\ marker = EMPTY
    /\ db_sp_list = <<>>
    /\ method_filenames = {}
    /\ known_filenames = {}
    /\ loaded = NoneLoaded
    /\ method_sp = EmptyDict
    /\ known_sp = EmptyDict
    /\ reports = EmptyDict
    /\ status = "running"
    /\ warnings = {}
    /\ tally_order = <<>>
    /\ PoolIdle

CallGlobal ==
    /\ pc = "call"
    /\ call = NoCall
    /\ call' = [fn |-> "extract_global_tally", class_name |-> EMPTY,
                out |-> extract_global_tally(global_tally, sp_list)]
    /\ UNCHANGED <<pc, marker, db_sp_list, method_filenames, known_filenames,
                   loaded, method_sp, known_sp, global_tally, sp_list, reports,
                   status, warnings>>
    /\ UNCHANGED <<tally_order, pool_vars>>

CallBinary ==
    /\ pc = "call"
    /\ call = NoCall
    /\ \E class_name \in CallClasses :
           call' = [fn |-> "extract_binary_tally", class_name |-> class_name,
                    out |-> Returned(extract_binary_tally(class_name, global_tally))]
    /\ UNCHANGED <<pc, marker, db_sp_list, method_filenames, known_filenames,
                   loaded, method_sp, known_sp, global_tally, sp_list, reports,
                   status, warnings>>
    /\ UNCHANGED <<tally_order, pool_vars>>

\* the line of the metrics table for the counts of one class, or for the
\* overall counts (class_name "")
CallRow ==
    /\ pc = "call"
    /\ call = NoCall
    /\ \E class_name \in CallClasses \cup {EMPTY} :
           LET overall == extract_global_tally(global_tally, sp_list)
           IN  /\ class_name = EMPTY => overall.exc = ""
               /\ call' = [fn |-> "metrics_row", class_name |-> class_name,
                           out |-> Returned(
                               IF class_name = EMPTY
                               THEN metrics_row("OVERALL", EMPTY, 0, overall.val)
                               ELSE metrics_row("species", class_name, 0,
                                                extract_binary_tally(class_name,
                                                                     global_tally)))]
    /\ UNCHANGED <<pc, marker, db_sp_list, method_filenames, known_filenames,
                   loaded, method_sp, known_sp, global_tally, sp_list, reports,
                   status, warnings>>
    /\ UNCHANGED <<tally_order, pool_vars>>

NextCall == CallGlobal \/ CallBinary \/ CallRow

SpecCall == InitCall /\ [][NextCall]_vars

(***************************************************************************)
(* scripts/pooling.py, step by step: the options and the header, one input *)
(* line at a time, then the output file.                                   *)
(***************************************************************************)
assess_vars == <<marker, db_sp_list, method_filenames, known_filenames, loaded,
                 method_sp, known_sp, global_tally, tally_order, sp_list, reports,
                 warnings, call>>

InitPool ==
    /\ pc = "pool_start"
    /\ tsv \in Tables
    /\ options \in PoolOptions
    /\ line_no = 0
    /\ meta_samples = EmptyDict
    /\ meta_species = EmptyDict
    /\ meta_pending = EmptyDict
    /\ pooled = <<>>
    /\ status = "running"
    /\ marker = EMPTY
    /\ db_sp_list = <<>>
    /\ method_filenames = {}
    /\ known_filenames = {}
    /\ loaded = NoneLoaded
    /\ method_sp = EmptyDict
    /\ known_sp = EmptyDict
    /\ global_tally = EmptyDict
    /\ tally_order = <<>>
    /\ sp_list = <<>>
    /\ reports = EmptyDict
    /\ warnings = {}
    /\ call = NoCall

\* the options and the header line
PoolStart ==
    /\ pc = "pool_start"
    /\ IF options.pending - 1 >= MetaCols
       THEN Exit("ERROR: Pending column not in metadata range.")
       ELSE pc' = "pool_read" /\ status' = status
    /\ UNCHANGED <<assess_vars, pool_vars>>

\* one line of the input file
PoolLine ==
    /\ pc = "pool_read"
    /\ line_no < Len(tsv)
    /\ LET r == pool_line(meta_samples, meta_species, meta_pending, tsv[line_no + 1],
                          options.pending)
       IN  /\ meta_samples' = r.meta_samples
           /\ meta_species' = r.meta_species
           /\ meta_pending' = r.meta_pending
           /\ IF r.end # "" THEN Exit(r.end) /\ UNCHANGED line_no
              ELSE line_no' = line_no + 1 /\ UNCHANGED <<pc, status>>
    /\ UNCHANGED <<assess_vars, tsv, options, pooled>>

\* the end of the input file: the totals and the output file
PoolWrite ==
    /\ pc = "pool_read"
    /\ line_no = Len(tsv)
    /\ LET r == pool_write(meta_order(tsv), meta_species, meta_samples, meta_pending,
                           options)
       IN  IF r.end # "" THEN Exit(r.end) /\ UNCHANGED pooled
           ELSE pooled' = r.lines /\ pc' = "pool_done" /\ status' = "return None"
    /\ UNCHANGED <<assess_vars, tsv, line_no, options, meta_samples, meta_species,
                   meta_pending>>

NextPool == PoolStart \/ PoolLine \/ PoolWrite

SpecPool == InitPool /\ [][NextPool]_vars

(***************************************************************************)
(* Properties of the extraction functions (checked under SpecCall).        *)
(***************************************************************************)
\* the labels of a combination as the data model reads it: "" names no species
ComboLabels(combo) == IF combo = EMPTY THEN {} ELSE Elems(split(combo, SEMI))
KeyLabels(tally) == UNION {ComboLabels(k[1]) \cup ComboLabels(k[2]) : k \in DOMAIN tally}
\* the sum over the tally entries of count x w[key]
Weighted(tally, w) == SumValues([k \in DOMAIN tally |-> tally[k] * w[k]])
QuadSum(v) == v[1] + v[2] + v[3] + v[4]

GlobalCalled == pc = "call" /\ call.fn = "extract_global_tally"
BinaryCalled == pc = "call" /\ call.fn = "extract_binary_tally"

\* C1: for a species list that holds every label of the tally keys,
\* extract_global_tally returns counts with TP+FP+FN+TN = len(species list) x
\* (sum of the tally counts).
C1_GlobalSum ==
    (GlobalCalled /\ EMPTY \notin KeyLabels(global_tally)
                  /\ KeyLabels(global_tally) \subseteq Elems(sp_list))
    => /\ call.out.exc = ""
       /\ QuadSum(call.out.val) = Len(sp_list) * SumValues(global_tally)

C1_Witness ==
    /\ GlobalCalled
    /\ call.out.exc = ""
    /\ <<EMPTY, EMPTY>> \in DOMAIN global_tally
    /\ Cardinality(DOMAIN global_tally) = 2
    /\ Len(sp_list) = 4
    /\ QuadSum(call.out.val) = 4 * SumValues(global_tally)
    /\ SumValues(global_tally) = 3

\* C2: for any class name extract_binary_tally returns counts that add up to
\* the sum of the tally counts, each entry counted once, under TP, FP, FN or
\* TN by whether the class is in its expected and in its predicted combination.
C2_BinarySum ==
    BinaryCalled =>
        LET c == call.class_name
            v == call.out.val
            In(e, p) == [k \in DOMAIN global_tally |->
                            IF (c \in Elems(split(k[1], SEMI))) = e
                               /\ (c \in Elems(split(k[2], SEMI))) = p
                            THEN 1 ELSE 0]
        IN  /\ QuadSum(v) = SumValues(global_tally)
            /\ v[1] = Weighted(global_tally, In(TRUE, TRUE))
            /\ v[2] = Weighted(global_tally, In(FALSE, TRUE))
            /\ v[3] = Weighted(global_tally, In(TRUE, FALSE))
            /\ v[4] = Weighted(global_tally, In(FALSE, FALSE))

C2_Witness ==
    /\ BinaryCalled
    /\ call.class_name = B
    /\ call.out.val = <<1, 2, 0, 0>>

TallyBuilt == pc # "call" /\ DOMAIN global_tally # {}
CommonSamples == DOMAIN method_sp \cap DOMAIN known_sp
SampleDict(role) == IF role = "method" THEN method_sp ELSE known_sp
Roles == {"method", "known"}

\* the line of a species in the metrics table, if it has one
HasRow(sp) ==
    \E i \in 1..Len(reports["assess"]) :
        reports["assess"][i].kind = "species" /\ reports["assess"][i].name = sp
AllZero(sp) ==
    LET v == extract_binary_tally(sp, global_tally)
    IN  v[1] = 0 /\ v[2] = 0 /\ v[3] = 0
RECURSIVE SeqSum(_)
SeqSum(q) == IF q = <<>> THEN 0 ELSE Head(q) + SeqSum(Tail(q))

\* C4: in the metrics table a species of the evaluation list has no line of
\* its own, and is counted in the "OTHER N SPECIES IN DB" line, exactly when its
\* binary TP, FP and FN are all zero; the TN of the OTHER line is the sum of the
\* TN of those species.
C4_OtherIffAllZero ==
    pc = "done" =>
        LET rows == reports["assess"]
            zero == {i \in 1..Len(sp_list) : AllZero(sp_list[i])}
            other == {i \in 1..Len(rows) : rows[i].kind = "OTHER"}
        IN  /\ \A j \in 1..Len(sp_list) : HasRow(sp_list[j]) <=> j \notin zero
            /\ (other = {}) <=> (zero = {})
            /\ \A i \in other :
                   /\ rows[i].n = Cardinality(zero)
                   /\ rows[i].tn = SumValues([j \in zero |->
                                       extract_binary_tally(sp_list[j], global_tally)[4]])

\* C5: once the tally holds a predicted label that is not in db_sp_list, the
\* run ends with a non-zero exit status and no report file was opened.
C5_ImpossiblePredictionAborts ==
    (TallyBuilt /\ \E key \in DOMAIN global_tally :
                      \E sp \in Elems(split(key[2], SEMI)) :
                          key[2] # EMPTY /\ ~InList(sp, db_sp_list))
    => /\ DOMAIN reports = {}
       /\ \/ pc = "classes"
          \/ pc = "exit" /\ ExitStatus # 0

C5_Witness ==
    /\ pc = "exit"
    /\ status = "ERROR: Predicted species was not in the database!"
    /\ TallyBuilt
    /\ DOMAIN reports = {}
    /\ db_sp_list = <<A>>
    /\ \E key \in DOMAIN global_tally : key[2] = <<"A", ";", "B">>

\* C6: the tally counts add up to the number of samples in both maps; each
\* such sample is counted once, under its expected and predicted combination
\* (so the assert on the total never fails).
C6_TallyTotal ==
    /\ status # "AssertionError: len(samples) == sum(global_tally.values())"
    /\ TallyBuilt =>
        LET pair(smp) == <<join(SEMI, sorted(known_sp[smp])),
                           join(SEMI, sorted(method_sp[smp]))>>
        IN  /\ SumValues(global_tally) = Cardinality(CommonSamples)
            /\ DOMAIN global_tally = {pair(smp) : smp \in CommonSamples}
            /\ \A key \in DOMAIN global_tally :
                   global_tally[key] = Cardinality({smp \in CommonSamples : pair(smp) = key})

C6_Witness ==
    /\ pc = "classes"
    /\ DOMAIN known_sp # DOMAIN method_sp
    /\ Cardinality(CommonSamples) = 2
    /\ SumValues(global_tally) = 2

\* C7: every expected and predicted combination is the sorted, semicolon-joined
\* list of the distinct species-level labels of the sample's set, and holds
\* no empty label.
C7_CombinationsClean ==
    TallyBuilt =>
        LET combo(labels) == join(SEMI, sorted({sp \in labels : species_level(sp)}))
        IN  /\ DOMAIN global_tally =
                   {<<combo(known_sp[smp]), combo(method_sp[smp])>> : smp \in CommonSamples}
            /\ \A key \in DOMAIN global_tally :
                   /\ key[1] # EMPTY => EMPTY \notin Elems(split(key[1], SEMI))
                   /\ key[2] # EMPTY => EMPTY \notin Elems(split(key[2], SEMI))

\* the species-level labels one file gives one sample, synonyms resolved
FileSpecies(f, smp) ==
    LET fields == IF f.parse = "missing header"
                  THEN IF f.sample = smp THEN Elems(f.recs) ELSE {}
                  ELSE {f.seq_meta[<<key[1], key[2]>>] : key \in {k \in f.counts : k[3] = smp}}
        names == UNION {Elems(split(field, SEMI)) : field \in fields}
    IN  {synonyms_get(name) : name \in {n \in names : species_level(n)}}
Mentions(f, smp) ==
    IF f.parse = "missing header" THEN f.sample = smp ELSE smp \in f.sample_meta

\* C8: the label set of a sample is the union of the synonym-resolved
\* species-level labels of all the files loaded so far that mention it, whatever
\* the order they were loaded in.
C8_UnionOfFiles ==
    pc # "call" =>
        \A role \in Roles :
            /\ DOMAIN SampleDict(role) =
                   {smp \in Samples : \E f \in loaded[role] : Mentions(f, smp)}
            /\ \A smp \in DOMAIN SampleDict(role) :
                   SampleDict(role)[smp] = UNION {FileSpecies(f, smp) : f \in loaded[role]}

\* C9: every sample of the metadata of a loaded tally-format file is a key of
\* the sample map, with an empty set when no file gave it a retained count, and
\* no label a loaded file gave a sample is lost.
C9_SamplesRegistered ==
    pc # "call" =>
        \A role \in Roles : \A f \in loaded[role] :
            /\ f.parse = "tally" => f.sample_meta \subseteq DOMAIN SampleDict(role)
            /\ \A smp \in DOMAIN SampleDict(role) :
                   /\ (\A g \in loaded[role] :
                          g.parse = "tally" /\ \A k \in g.counts : k[3] # smp)
                      => SampleDict(role)[smp] = {}
                   /\ FileSpecies(f, smp) \subseteq SampleDict(role)[smp]

C9_Witness ==
    /\ pc = "load"
    /\ LegacyFile("s2", <<B>>) \in loaded["known"]
    /\ TallyFile(Samples, {"s1", "s3"}, <<"M1">>, TRUE, A) \in loaded["known"]
    /\ known_sp = [smp \in Samples |-> IF smp = "s2" THEN {B} ELSE {A}]
    /\ method_sp = [smp \in Samples |-> IF smp = "s1" THEN {A, B} ELSE {}]

\* C10: the cells of the confusion matrix add up to len(sp_list) x (tally
\* total), so the run never ends with "Expected ... but confusion matrix
\* total ...".
C10_ConfusionTotal ==
    /\ status # "ERROR: Expected but confusion matrix total"
    /\ (pc # "call" /\ "confusion" \in DOMAIN reports) =>
           LET m == reports["confusion"]
           IN  /\ m.total = Len(sp_list) * SumValues(global_tally)
               /\ m.total = SeqSum([i \in 1..Len(m.table.rows) |->
                                       SeqSum(m.table.rows[i].cells)])

C10_Witness ==
    /\ pc = "done"
    /\ sp_list = <<A, B>>
    /\ warnings = {B}
    /\ reports["confusion"].total = 6
    /\ \E i \in 1..Len(reports["confusion"].table.rows) :
           reports["confusion"].table.rows[i].cells[2] > 0

\* the labels of the expected and of the predicted combinations of the tally
ExpectedLabels == UNION {ComboLabels(k[1]) : k \in DOMAIN global_tally}
PredictedLabels == UNION {ComboLabels(k[2]) : k \in DOMAIN global_tally}
AfterClassList == pc \in {"map", "confusion", "assess", "done"}

\* C11: when the tally holds an expected label outside db_sp_list and every
\* predicted label is in db_sp_list, the run does not end in an error: the
\* labels outside are warned about and are in sp_list, every later check and
\* assertion passes, and the run ends with "return 0".
C11_ExpectedOutsideDbIsNotFatal ==
    (TallyBuilt /\ ExpectedLabels \ Elems(db_sp_list) # {}
                /\ PredictedLabels \subseteq Elems(db_sp_list))
    => /\ pc # "exit"
       /\ AfterClassList => /\ warnings = ExpectedLabels \ Elems(db_sp_list)
                            /\ ExpectedLabels \subseteq Elems(sp_list)
       /\ pc = "done" => ExitStatus = 0

AllLoaded == loaded["method"] = method_filenames /\ loaded["known"] = known_filenames
PastLoading == pc \in {"classes", "map", "confusion", "assess", "done", "exit"}

\* C12: when no sample is in both sample maps the run ends in the fatal
\* error "No shared samples", with a non-zero exit status, before the tally is
\* built and before any report is written.
C12_NoSharedSamplesIsFatal ==
    (PastLoading /\ CommonSamples = {})
    => /\ pc = "exit"
       /\ ExitStatus # 0
       /\ global_tally = EmptyDict
       /\ reports = EmptyDict
       /\ (AllLoaded /\ method_filenames # {} /\ known_filenames # {})
              => status = "ERROR: No shared samples"

C12_Witness ==
    /\ pc = "exit"
    /\ status = "ERROR: No shared samples"
    /\ DOMAIN method_sp # {}
    /\ DOMAIN known_sp # {}
    /\ global_tally = EmptyDict
    /\ reports = EmptyDict

\* the same run with every iteration in one fixed order: the files of a list,
\* the common samples, and with them the keys of the tally
RECURSIVE FixedLoad(_)
FixedLoad(files) ==
    IF files = {} THEN EmptyDict
    ELSE LET f == CHOOSE x \in files : TRUE
         IN  load_file(FixedLoad(files \ {f}), f, marker).dict
FixedOrder == CHOOSE q \in Orders(DOMAIN FixedLoad(method_filenames)
                                  \cap DOMAIN FixedLoad(known_filenames)) : TRUE
FixedTally ==
    build_tally(EmptyDict, FixedOrder, FixedLoad(known_filenames), FixedLoad(method_filenames))
FixedKeys ==
    tally_keys(<<>>, FixedOrder, FixedLoad(known_filenames), FixedLoad(method_filenames))
FixedSpList ==
    LET r == class_list_from_tally_and_db_list(FixedTally, db_sp_list)
    IN  IF InList(EMPTY, r.classes) THEN list_remove(r.classes, EMPTY) ELSE r.classes
FixedTotal == Len(FixedSpList) * SumValues(FixedTally)

\* C13: the sample maps, the tally and the three reports of a run are those of
\* the run on the same files and database that takes the files, the common
\* samples and the tally keys in one fixed order: the order in which a run
\* iterates over them changes neither the tally nor a row of a report.
C13_SameInputSameReports ==
    /\ (PastLoading /\ AllLoaded)
          => /\ method_sp = FixedLoad(method_filenames)
             /\ known_sp = FixedLoad(known_filenames)
    /\ TallyBuilt => global_tally = FixedTally
    /\ (pc # "call" /\ "map" \in DOMAIN reports)
          => reports["map"] = save_mapping(FixedTally, FixedKeys)
    /\ (pc # "call" /\ "confusion" \in DOMAIN reports)
          => LET r == save_confusion_matrix(FixedTally, db_sp_list, FixedSpList, FixedTotal)
             IN  reports["confusion"] = [table |-> r.table, total |-> r.total]
    /\ (pc # "call" /\ "assess" \in DOMAIN reports)
          => reports["assess"] = metrics_table(FixedTally, FixedSpList, FixedTotal).rows

C13_Witness ==
    /\ pc = "done"
    /\ Cardinality(method_filenames) + Cardinality(known_filenames) = 3
    /\ tally_order # sorted_keys(tally_order)
    /\ tally_order # FixedKeys
    /\ Len(reports["map"]) = 2

RowCalled == pc = "call" /\ call.fn = "metrics_row"
\* a quotient that was computed (no division by zero) and lies in [0, 1]
InUnitInterval(q) == q[2] > 0 /\ 0 <= q[1] /\ q[1] <= q[2]

\* C14: in a line of the metrics table no ratio divides by zero and each of
\* the six ratios is in [0, 1]; sensitivity, precision and F1 are 0 when
\* TP = 0, specificity is 0 when TN = 0, the Hamming loss is 0 when
\* TP+FP+FN+TN = 0 and the ad-hoc loss is 0 when TP+FP+FN = 0.
C14_RatiosDefined ==
    RowCalled =>
        LET r == call.out.val
        IN  /\ \A q \in {r.sensitivity, r.specificity, r.precision, r.f1,
                         r.hamming_loss, r.ad_hoc_loss} : InUnitInterval(q)
            /\ r.tp = 0 => r.sensitivity[1] = 0 /\ r.precision[1] = 0 /\ r.f1[1] = 0
            /\ r.tn = 0 => r.specificity[1] = 0
            /\ r.tp + r.fp + r.fn + r.tn = 0 => r.hamming_loss[1] = 0
            /\ r.tp + r.fp + r.fn = 0 => r.ad_hoc_loss[1] = 0

C14_Witness ==
    /\ RowCalled
    /\ call.out.val.tp = 0
    /\ call.out.val.fn = 0
    /\ call.out.val.fp > 0
    /\ call.out.val.tn = 0
    /\ call.out.val.sensitivity = Zero
    /\ call.out.val.specificity = Zero
    /\ call.out.val.hamming_loss = <<1, 1>>

\* the loop over sp_list applied to every entry of the tally
RECURSIVE GeneralLoop(_, _, _, _)
GeneralLoop(x, tally, keys, species) ==
    IF keys = {} THEN x
    ELSE LET k == CHOOSE k \in keys : TRUE
         IN  GeneralLoop(global_classes(x, k[1], k[2], tally[k], species),
                         tally, keys \ {k}, species)

\* C15: the special case of extract_global_tally for an entry that expects
\* nothing and predicts nothing changes no result: the counts returned are
\* those of the per-species loop applied to every entry, that entry included.
C15_SpecialCaseIsGeneralLoop ==
    (GlobalCalled /\ call.out.exc = "") =>
        LET x == GeneralLoop(NewCounter, global_tally, DOMAIN global_tally, sp_list)
        IN  call.out.val = <<x[<<TRUE, TRUE>>], x[<<FALSE, TRUE>>],
                             x[<<TRUE, FALSE>>], x[<<FALSE, FALSE>>]>>

C15_Witness ==
    /\ GlobalCalled
    /\ call.out.exc = ""
    /\ <<EMPTY, EMPTY>> \in DOMAIN global_tally
    /\ global_tally[<<EMPTY, EMPTY>>] = 2
    /\ Cardinality(DOMAIN global_tally) = 2
    /\ Len(sp_list) = 3
    /\ call.out.val[4] > 6

InputFiles == method_filenames \cup known_filenames
LoadedFiles == loaded["method"] \cup loaded["known"]

\* C16: a file is loaded through the legacy branch only when the parser
\* failed for its missing header line; a file the parser rejects for another
\* reason is never loaded, neither as a legacy file nor skipped: the run ends
\* at that file with the fatal "Unable to parse" and a non-zero exit status.
C16_OnlyMissingHeaderIsLegacy ==
    /\ \A f \in LoadedFiles : f.parse # "error"
    /\ (\E f \in InputFiles : f.parse = "error")
          => /\ pc \in {"start", "load", "exit"}
             /\ pc = "exit" => ExitStatus # 0
    /\ status = "ERROR: Unable to parse"
          => /\ pc = "exit"
             /\ \E f \in InputFiles \ LoadedFiles : f.parse = "error"
    /\ \A role \in Roles : \A f \in loaded[role] :
          f.parse = "missing header"
             => /\ f.sample \in DOMAIN SampleDict(role)
                /\ legacy_genus_species(f) \subseteq SampleDict(role)[f.sample]

C16_Witness ==
    /\ pc = "exit"
    /\ status = "ERROR: Unable to parse"
    /\ \E f \in loaded["method"] : f.parse = "missing header"
    /\ BadFile \in method_filenames \ loaded["method"]

(***************************************************************************)
(* Properties of the pooling script (checked under SpecPool).              *)
(***************************************************************************)
\* Y, Yes or True in any case
SaysPending(field) == upper(field) \in {<<"Y">>, <<"Y", "E", "S">>, <<"T", "R", "U", "E">>}
\* the lines of the output for a metadata group that are a row of "?"
QueryLines(meta) ==
    {j \in 1..Len(pooled) : /\ pooled[j].meta = meta
                            /\ pooled[j].cells # <<>>
                            /\ \A i \in 1..Len(pooled[j].cells) : pooled[j].cells[i] = QUERY}
\* the lines of the output for a metadata group that hold its pooled values
ValueLines(meta) ==
    {j \in 1..Len(pooled) : /\ pooled[j].meta = meta
                            /\ \A i \in 1..Len(pooled[j].cells) :
                                   pooled[j].cells[i] \notin {QUERY, DASH}}

\* C17: with a pending column, every metadata group that has an input line
\* whose pending field is Y, Yes or True (in any case) has a row of "?" in the
\* pooled output, and a row of values as well when one of its lines was
\* sequenced, wherever that line stands among the lines of the group.
C17_PendingGroupGetsQueryRow ==
    (pc = "pool_done" /\ options.pending # 0) =>
        \A i \in 1..Len(tsv) :
            SaysPending(tsv[i].pending) =>
                /\ QueryLines(<<tsv[i].meta>>) # {}
                /\ (\E k \in 1..Len(tsv) : tsv[k].meta = tsv[i].meta
                                           /\ tsv[k].sp_counts # sp_null)
                       => ValueLines(<<tsv[i].meta>>) # {}

ConfusionWritten == pc # "call" /\ "confusion" \in DOMAIN reports
\* the tally keys of a row of the matrix
RowKeys(expt) == {k \in DOMAIN global_tally : k[1] = (IF expt = NONE THEN EMPTY ELSE expt)}
\* the sum over the keys of a row of count x w[key]
RowWeighted(expt, w(_)) ==
    SumValues([k \in RowKeys(expt) |-> global_tally[k] * w(k)])

\* C18: in the row of an expected combination E the cell of a predicted
\* species s is the sum of the counts of the entries of E whose prediction
\* holds s, the (FN) cell the sum of count x |E minus P|, the (TN) cell the
\* sum of count x |S minus (E union P)| for S the species of sp_list, and the
\* cells of the row add up to the sample count of the row x len(sp_list).
C18_ConfusionCells ==
    ConfusionWritten =>
        LET t == reports["confusion"].table
            S == Elems(sp_list)
        IN  \A i \in 1..Len(t.rows) :
              LET row == t.rows[i]
                  E == IF row.expt = NONE THEN {} ELSE ComboLabels(row.expt)
                  Holds(s, k) == IF s \in ComboLabels(k[2]) THEN 1 ELSE 0
                  Missed(k) == Cardinality(E \ ComboLabels(k[2]))
                  Neither(k) == Cardinality(S \ (E \cup ComboLabels(k[2])))
              IN  /\ Len(row.cells) = Len(t.cols)
                  /\ \A j \in 1..Len(t.cols) :
                        row.cells[j] =
                            IF t.cols[j] = TN THEN RowWeighted(row.expt, Neither)
                            ELSE IF t.cols[j] = FN THEN RowWeighted(row.expt, Missed)
                            ELSE LET s == t.cols[j]
                                     HoldsS(k) == Holds(s, k)
                                 IN  RowWeighted(row.expt, HoldsS)
                  /\ row.count = SumValues([k \in RowKeys(row.expt) |-> global_tally[k]])
                  /\ SeqSum(row.cells) = row.count * Len(sp_list)

C18_Witness ==
    /\ ConfusionWritten
    /\ \E i \in 1..Len(reports["confusion"].table.rows) :
          LET row == reports["confusion"].table.rows[i]
          IN  /\ row.expt = <<"A", ";", "B">>
              /\ reports["confusion"].table.cols = <<TN, FN, A>>
              /\ row.cells = <<0, 1, 1>>
    /\ \E i \in 1..Len(reports["confusion"].table.rows) :
          LET row == reports["confusion"].table.rows[i]
          IN  row.expt = NONE /\ row.cells[1] > 0

\* a sequence of strings in strictly increasing order
Increasing(q) == \A i \in 1..(Len(q) - 1) : StrLess(q[i], q[i + 1])

\* C19: the matrix has one row for each expected combination of the tally:
\* "(None)" first, and only when an entry expects nothing, then the
\* combinations of one species in sorted order, then those of several in
\* sorted order; its columns are "(TN)", "(FN)", then each species of a
\* predicted combination once, in sorted order.
C19_ConfusionRowsAndColumns ==
    ConfusionWritten =>
        LET t == reports["confusion"].table
            names == [i \in 1..Len(t.rows) |-> t.rows[i].expt]
            expts == {k[1] : k \in DOMAIN global_tally}
            first == IF EMPTY \in expts THEN 1 ELSE 0
            single == {e \in expts \ {EMPTY} : Cardinality(ComboLabels(e)) = 1}
            n1 == Cardinality(single)
        IN  /\ Len(names) = Cardinality(expts)
            /\ Elems(names) = (expts \ {EMPTY}) \cup (IF EMPTY \in expts THEN {NONE} ELSE {})
            /\ EMPTY \in expts => names[1] = NONE
            /\ Elems(SubSeq(names, first + 1, first + n1)) = single
            /\ Increasing(SubSeq(names, first + 1, first + n1))
            /\ Increasing(SubSeq(names, first + n1 + 1, Len(names)))
            /\ Len(t.cols) >= 2 /\ t.cols[1] = TN /\ t.cols[2] = FN
            /\ Elems(SubSeq(t.cols, 3, Len(t.cols))) = PredictedLabels
            /\ Increasing(SubSeq(t.cols, 3, Len(t.cols)))

C19_Witness ==
    /\ ConfusionWritten
    /\ Len(reports["confusion"].table.rows) = 3
    /\ reports["confusion"].table.rows[1].expt = NONE
    /\ reports["confusion"].table.rows[2].expt = B
    /\ reports["confusion"].table.rows[3].expt = <<"A", ";", "B">>
    /\ reports["confusion"].table.cols = <<TN, FN, A>>

\* the sum over the species of sp_list of the i-th count of extract_binary_tally
RECURSIVE BinarySum(_, _)
BinarySum(species, i) ==
    IF species = <<>> THEN 0
    ELSE extract_binary_tally(Head(species), global_tally)[i]
         + BinarySum(Tail(species), i)

\* C20: for the tally and the species list of a run each of the global TP, FP,
\* FN and TN is the sum over the species of sp_list of that count of
\* extract_binary_tally; the sum of the per-species totals is the OVERALL
\* total and the run never ends with the per-species sum mismatch.
C20_GlobalIsSumOfBinary ==
    /\ status # "ERROR: Overall TP+FP+FN+TP, but sum for species"
    /\ (pc # "call" /\ AfterClassList) =>
           LET g == extract_global_tally(global_tally, sp_list)
           IN  /\ g.exc = ""
               /\ \A i \in 1..4 : g.val[i] = BinarySum(sp_list, i)
               /\ "assess" \in DOMAIN reports =>
                      LET o == reports["assess"][1]
                      IN  /\ o.kind = "OVERALL"
                          /\ o.tp + o.fp + o.fn + o.tn
                               = BinarySum(sp_list, 1) + BinarySum(sp_list, 2)
                                 + BinarySum(sp_list, 3) + BinarySum(sp_list, 4)

C20_Witness ==
    /\ pc = "done"
    /\ Len(sp_list) = 2
    /\ <<EMPTY, EMPTY>> \in DOMAIN global_tally
    /\ Cardinality(DOMAIN global_tally) >= 2
    /\ \E k \in DOMAIN global_tally : global_tally[k] = 2
    /\ reports["assess"][1].tn > 0
    /\ reports["assess"][1].tp > 0
====
